---------------------------- MODULE Spec2Model ----------------------------
(***************************************************************************)
(* The two Pygments lexers of book/fstar_pygments.py (CustomLexer for      *)
(* F*, PulseLexer for Pulse) as a state machine: the RegexLexer scan loop  *)
(* run over the ordered rule table of each lexer.                          *)
(*                                                                         *)
(* A text is a sequence of one-character strings.  Positions are 1-based   *)
(* (Pygments' are 0-based); a token is [index, kind, value].  A rule       *)
(* matcher returns the width of its match at a position, or -1 when the    *)
(* pattern does not match there.                                           *)
(***************************************************************************)
EXTENDS Integers, Sequences, FiniteSets

VARIABLES lexer, text, pos, out, done

vars == << lexer, text, pos, out, done >>

(***************************************************************************)
(* Character classes of the patterns.                                      *)
(***************************************************************************)
Lower == { "a","b","c","d","e","f","g","h","i","j","k","l","m",
           "n","o","p","q","r","s","t","u","v","w","x","y","z" }

Upper == { "A","B","C","D","E","F","G","H","I","J","K","L","M",
           "N","O","P","Q","R","S","T","U","V","W","X","Y","Z" }

Digit == { "0","1","2","3","4","5","6","7","8","9" }

\* A letter outside ASCII: \b sees it as a word character (Python 3 str
\* patterns are Unicode-aware), the classes [a-zA-Z_0-9] and [a-zA-Z_] do not.
NonAsciiLetter == { "é" }

\* [a-zA-Z_0-9], the identifier class of CustomLexer
CustomIdentClass == Lower \cup Upper \cup {"_"} \cup Digit

\* the digits kept in PulseLexer's class, as in CustomLexer's
PulseIdentClass_WithDigits == Lower \cup Upper \cup {"_"} \cup Digit

\* [a-zA-Z_], the identifier class of PulseLexer
PulseIdentClass == Lower \cup Upper \cup {"_"}

\* \w, the class \b is defined by
IsWordChar(c) == c \in CustomIdentClass \cup NonAsciiLetter

(***************************************************************************)
(* The keyword tables.                                                     *)
(***************************************************************************)
fstar_keywords ==
    << <<"a","t","t","r","i","b","u","t","e","s">>
     , <<"n","o","e","q">>
     , <<"u","n","o","p","t","e","q">>
     , <<"a","n","d">>
     , <<"a","s","s","e","r","t">>
     , <<"a","s","s","e","r","t","_","n","o","r","m">>
     , <<"a","s","s","u","m","e">>
     , <<"b","e","g","i","n">>
     , <<"b","y">>
     , <<"c","a","l","c">>
     , <<"c","l","a","s","s">>
     , <<"d","e","c","r","e","a","s","e","s">>
     , <<"D","v">>
     , <<"e","f","f","e","c","t">>
     , <<"e","l","i","m","i","n","a","t","e">>
     , <<"e","l","s","e">>
     , <<"e","n","d">>
     , <<"e","n","s","u","r","e","s">>
     , <<"e","x","c","e","p","t","i","o","n">>
     , <<"e","x","i","s","t","s">>
     , <<"f","a","l","s","e">>
     , <<"f","r","i","e","n","d">>
     , <<"f","o","r","a","l","l">>
     , <<"f","u","n">>
     , <<"f","u","n","c","t","i","o","n">>
     , <<"G","T","o","t">>
     , <<"i","f">>
     , <<"i","n">>
     , <<"i","n","c","l","u","d","e">>
     , <<"i","n","l","i","n","e">>
     , <<"i","n","l","i","n","e","_","f","o","r","_","e","x","t","r","a","c","t","i","o","n">>
     , <<"i","n","s","t","a","n","c","e">>
     , <<"i","n","t","r","o","d","u","c","e">>
     , <<"i","r","r","e","d","u","c","i","b","l","e">>
     , <<"l","e","t">>
     , <<"l","o","g","i","c">>
     , <<"m","a","t","c","h">>
     , <<"m","o","d","u","l","e">>
     , <<"n","e","w">>
     , <<"n","e","w","_","e","f","f","e","c","t">>
     , <<"l","a","y","e","r","e","d","_","e","f","f","e","c","t">>
     , <<"p","o","l","y","m","o","n","a","d","i","c","_","b","i","n","d">>
     , <<"p","o","l","y","m","o","n","a","d","i","c","_","s","u","b","c","o","m","p">>
     , <<"S","M","T","P","a","t">>
     , <<"n","o","e","x","t","r","a","c","t">>
     , <<"o","f">>
     , <<"o","p","e","n">>
     , <<"o","p","a","q","u","e">>
     , <<"p","r","i","v","a","t","e">>
     , <<"r","a","n","g","e","_","o","f">>
     , <<"r","e","c">>
     , <<"r","e","i","f","i","a","b","l","e">>
     , <<"r","e","i","f","y">>
     , <<"r","e","f","l","e","c","t","a","b","l","e">>
     , <<"r","e","q","u","i","r","e","s">>
     , <<"r","e","t","u","r","n","s">>
     , <<"s","e","t","_","r","a","n","g","e","_","o","f">>
     , <<"s","u","b","_","e","f","f","e","c","t">>
     , <<"s","y","n","t","h">>
     , <<"t","h","e","n">>
     , <<"t","o","t","a","l">>
     , <<"T","o","t">>
     , <<"t","r","u","e">>
     , <<"t","r","y">>
     , <<"t","y","p","e">>
     , <<"u","n","f","o","l","d">>
     , <<"u","n","f","o","l","d","a","b","l","e">>
     , <<"v","a","l">>
     , <<"w","h","e","n">>
     , <<"w","i","t","h">>
     , <<"_">>
     , <<"L","e","m","m","a">>
    >>

pulse_keywords ==
    << <<"f","n">>
     , <<"f","o","l","d">>
     , <<"r","e","w","r","i","t","e">>
     , <<"e","a","c","h">>
     , <<"m","u","t">>
     , <<"g","h","o","s","t">>
     , <<"a","t","o","m","i","c">>
     , <<"s","h","o","w","_","p","r","o","o","f","_","s","t","a","t","e">>
     , <<"w","h","i","l","e">>
     , <<"i","n","v","a","r","i","a","n","t">>
     , <<"w","i","t","h","_","i","n","v","a","r","i","a","n","t","s">>
     , <<"o","p","e","n","s">>
     , <<"p","a","r","a","l","l","e","l">>
    >>

(***************************************************************************)
(* Pattern matchers.  Each gives the width of the pattern's match at pos   *)
(* (1 <= pos <= Len(t)), or -1 when the pattern does not match there.      *)
(***************************************************************************)
Max(S) == CHOOSE x \in S : \A y \in S : y <= x

Min(S) == CHOOSE x \in S : \A y \in S : x <= y

\* a pattern that is one literal character: r' ', r'\n', r'\r'
MatchChar(c, t, p) == IF t[p] = c THEN 1 ELSE -1

\* the greedy run X* at p for a character class X: the number of consecutive
\* characters from p on that satisfy the class
RECURSIVE RunLength(_, _, _)
RunLength(class, t, p) ==
    IF p <= Len(t) /\ t[p] \in class THEN 1 + RunLength(class, t, p + 1) ELSE 0

\* the greedy run .* at p: '.' is every character but the newline
RECURSIVE DotRun(_, _)
DotRun(t, p) ==
    IF p <= Len(t) /\ t[p] # "\n" THEN 1 + DotRun(t, p + 1) ELSE 0

\* '.' matching the newline too (re.DOTALL): the comment runs to the last
\* newline of the text
MatchLineComment_DotAll(t, p) ==
    IF p + 1 <= Len(t) /\ t[p] = "/" /\ t[p + 1] = "/"
    THEN LET ok == { q \in (p + 2)..Len(t) : t[q] = "\n" }
         IN  IF ok = {} THEN -1 ELSE Max(ok) - p + 1
    ELSE -1

\* r'//.*\n?': the newline optional, so that the end of the text ends a
\* comment too
MatchLineComment_ToEnd(t, p) ==
    IF p + 1 <= Len(t) /\ t[p] = "/" /\ t[p + 1] = "/"
    THEN LET n == DotRun(t, p + 2)
         IN  IF p + 2 + n <= Len(t) THEN 2 + n + 1 ELSE 2 + n
    ELSE -1

\* r'//.*\n': .* takes the longest run and gives characters back until a
\* newline follows it
MatchLineComment(t, p) ==
    IF p + 1 <= Len(t) /\ t[p] = "/" /\ t[p + 1] = "/"
    THEN LET n  == DotRun(t, p + 2)
             ok == { j \in 0..n : p + 2 + j <= Len(t) /\ t[p + 2 + j] = "\n" }
         IN  IF ok = {} THEN -1 ELSE 2 + Max(ok) + 1
    ELSE -1

\* ([^*]|[*]+[^)])*[*]+\) at i, as the backtracking matcher runs it: the
\* position after the match, or 0 when there is none.  The loop is greedy:
\* another iteration is tried before the closing [*]+\), the alternative
\* [^*] before [*]+[^)], and [*]+ gives stars back from the longest run.
RECURSIVE CommentRest(_, _)
CommentRest(t, i) ==
    IF i > Len(t) THEN 0
    ELSE IF t[i] # "*" THEN CommentRest(t, i + 1)
    ELSE LET k       == RunLength({"*"}, t, i)
             Iter(j) == IF i + j <= Len(t) /\ t[i + j] # ")"
                        THEN CommentRest(t, i + j + 1) ELSE 0
             more    == { j \in 1..k : Iter(j) # 0 }
             close   == { j \in 1..k : i + j <= Len(t) /\ t[i + j] = ")" }
         IN  IF more # {} THEN Iter(Max(more))
             ELSE IF close # {} THEN i + Max(close) + 1
             ELSE 0

\* r'\([*]([^*]|[*]+[^)])*[*]+\)'
MatchBlockComment(t, p) ==
    IF p + 1 <= Len(t) /\ t[p] = "(" /\ t[p + 1] = "*"
    THEN LET e == CommentRest(t, p + 2)
         IN  IF e = 0 THEN -1 ELSE e - p
    ELSE -1

\* the suffix \b left out of the keyword pattern
WordBoundary_Absent(t, p) == TRUE

\* \b before position p: exactly one of t[p-1], t[p] is a word character
\* (the ends of the text count as non-word)
WordBoundary(t, p) ==
    LET before == p > 1 /\ p - 1 <= Len(t) /\ IsWordChar(t[p - 1])
        after  == p >= 1 /\ p <= Len(t) /\ IsWordChar(t[p])
    IN  before # after

ToSet(s) == { s[i] : i \in 1..Len(s) }

fstar_keyword_set == ToSet(fstar_keywords)

pulse_keyword_set == ToSet(pulse_keywords)

\* the alternation fails without trying its other words when \b does not
\* follow the first (shortest) word found standing at p
MatchWords_NoBacktrack(kws, t, p) ==
    LET found == { n \in 1..(Len(t) - p + 1) : SubSeq(t, p, p + n - 1) \in kws }
    IN  IF found # {} /\ WordBoundary(t, p + Min(found)) THEN Min(found) ELSE -1

\* words(kws, suffix=r'\b'): an alternation of the words, then \b.  The
\* matcher backtracks over the alternatives, so the match is a word of the
\* table that stands at p and has \b behind it.  (The table's words are made
\* of word characters, so \b follows at most one of the words standing at p
\* and the order of the alternatives does not matter.)
MatchWords(kws, t, p) ==
    LET hits == { n \in 1..(Len(t) - p + 1) :
                    /\ SubSeq(t, p, p + n - 1) \in kws
                    /\ WordBoundary(t, p + n) }
    IN  IF hits = {} THEN -1 ELSE Min(hits)

\* X+ for a character class X
MatchRun(class, t, p) ==
    LET n == RunLength(class, t, p) IN IF n >= 1 THEN n ELSE -1

\* r'.'
MatchAny(t, p) == IF t[p] # "\n" THEN 1 ELSE -1

(***************************************************************************)
(* The rule tables: tokens['root'] of each lexer, in declaration order.    *)
(* A rule is a pattern, named here by a tag, and the token kind it yields. *)
(***************************************************************************)
Rule(p, k) == [pat |-> p, kind |-> k]

\* whitespace skipped (action None) instead of yielded as Text
CustomLexerRules_SkipSpace ==
    << Rule("space", "None"),
       Rule("newline", "None"),
       Rule("return", "None"),
       Rule("line_comment", "Comment"),
       Rule("block_comment", "Comment"),
       Rule("fstar_words", "Keyword"),
       Rule("custom_ident", "Text"),
       Rule("any", "Text") >>

\* the rule for the newline left out
CustomLexerRules_NoNewline ==
    << Rule("space", "Text"),
       Rule("return", "Text"),
       Rule("line_comment", "Comment"),
       Rule("block_comment", "Comment"),
       Rule("fstar_words", "Keyword"),
       Rule("custom_ident", "Text"),
       Rule("any", "Text") >>

CustomLexerRules ==
    << Rule("space", "Text"),
       Rule("newline", "Text"),
       Rule("return", "Text"),
       Rule("line_comment", "Comment"),
       Rule("block_comment", "Comment"),
       Rule("fstar_words", "Keyword"),
       Rule("custom_ident", "Text"),
       Rule("any", "Text") >>

\* the rule for pulse_keywords left out
PulseLexerRules_NoPulseWords ==
    << Rule("space", "Text"),
       Rule("newline", "Text"),
       Rule("return", "Text"),
       Rule("line_comment", "Comment"),
       Rule("block_comment", "Comment"),
       Rule("fstar_words", "Keyword"),
       Rule("pulse_ident", "Text"),
       Rule("any", "Text") >>

PulseLexerRules ==
    << Rule("space", "Text"),
       Rule("newline", "Text"),
       Rule("return", "Text"),
       Rule("line_comment", "Comment"),
       Rule("block_comment", "Comment"),
       Rule("fstar_words", "Keyword"),
       Rule("pulse_words", "Keyword"),
       Rule("pulse_ident", "Text"),
       Rule("any", "Text") >>

Rules(lx) == IF lx = "CustomLexer" THEN CustomLexerRules ELSE PulseLexerRules

\* the pattern a tag names, matched at p
Match(pat, t, p) ==
    CASE pat = "space"         -> MatchChar(" ", t, p)
      [] pat = "newline"       -> MatchChar("\n", t, p)
      [] pat = "return"        -> MatchChar("\r", t, p)
      [] pat = "line_comment"  -> MatchLineComment(t, p)
      [] pat = "block_comment" -> MatchBlockComment(t, p)
      [] pat = "fstar_words"   -> MatchWords(fstar_keyword_set, t, p)
      [] pat = "pulse_words"   -> MatchWords(pulse_keyword_set, t, p)
      [] pat = "custom_ident"  -> MatchRun(CustomIdentClass, t, p)
      [] pat = "pulse_ident"   -> MatchRun(PulseIdentClass, t, p)
      [] pat = "any"           -> MatchAny(t, p)

\* the rules are tried in order from rule r on and the first whose pattern
\* matches is taken.  With no matching rule RegexLexer itself steps over one
\* character: a newline as Whitespace, anything else as Error (rule 0).
RECURSIVE ScanFrom(_, _, _, _)
ScanFrom(rs, r, t, p) ==
    IF r > Len(rs)
    THEN [rule |-> 0, width |-> 1,
          kind |-> IF t[p] = "\n" THEN "Whitespace" ELSE "Error"]
    ELSE LET w == Match(rs[r].pat, t, p)
         IN  IF w >= 0
             THEN [rule |-> r, width |-> w, kind |-> rs[r].kind]
             ELSE ScanFrom(rs, r + 1, t, p)

\* what one pass of the scan loop at p commits to
Scan(lx, t, p) == ScanFrom(Rules(lx), 1, t, p)

(***************************************************************************)
(* The inputs the scan is run on.                                          *)
(***************************************************************************)
MaxLen == 4

MaxBody == 5

\* every text over alphabet of length at most n
Texts(alphabet, n) == UNION { [1..k -> alphabet] : k \in 0..n }

\* whitespace, the slash, letters that spell the keyword in, the underscore
\* (a keyword too) and a digit
GeneralAlphabet == { " ", "\n", "\r", "/", "i", "n", "1", "_" }

GeneralInputs == Texts(GeneralAlphabet, MaxLen)

\* texts that open a block comment
CommentAlphabet == { "(", "*", ")", "a" }

CommentInputs == { <<"(", "*">> \o w : w \in Texts(CommentAlphabet, MaxBody) }

AllKeywords == ToSet(fstar_keywords) \cup ToSet(pulse_keywords)

\* characters that are no letter, digit or underscore
Followers == { " ", "\n", "\r", "/", "(", "*", ")" }

\* every keyword alone, followed by one character, and preceded by one
KeywordInputs ==
    AllKeywords
    \cup { k \o <<c>> : k \in AllKeywords, c \in Followers \cup {"x", "1", "_", "é"} }
    \cup { <<c>> \o k : k \in AllKeywords, c \in {"x", "1", "é", " "} }

Letrec == <<"l","e","t","r","e","c">>

LineCommentThenLet == <<"/","/"," ","h","e","l","l","o","\n","l","e","t">>

UnterminatedLineComment == <<"/","/"," ","h","e","l","l","o">>

X1 == <<"x","1">>

X1Let == <<"x","1","l","e","t">>

SlashesThenBlock == <<"/","/","(","*","*",")">>

ExampleInputs ==
    { Letrec, LineCommentThenLet, UnterminatedLineComment, X1, X1Let,
      SlashesThenBlock }

Inputs == GeneralInputs \cup CommentInputs \cup KeywordInputs \cup ExampleInputs

(***************************************************************************)
(* The scan: RegexLexer.get_tokens_unprocessed over the lexer's table.     *)
(***************************************************************************)
Token(i, k, v) == [index |-> i, kind |-> k, value |-> v]

Init ==
    /\ lexer \in { "CustomLexer", "PulseLexer" }
    /\ text \in Inputs
    /\ pos = 1
    /\ out = << >>
    /\ done = FALSE

\* one pass of the loop: the first matching rule's token is yielded (unless
\* the rule's action is None) and the cursor moves to the end of the match
Step ==
    /\ ~done
    /\ pos <= Len(text)
    /\ \E s \in {Scan(lexer, text, pos)} :
       /\ out' = IF s.kind # "None"
                 THEN Append(out, Token(pos, s.kind, SubSeq(text, pos, pos + s.width - 1)))
                 ELSE out
       /\ pos' = pos + s.width
    /\ UNCHANGED << lexer, text, done >>

\* the cursor is past the last character: the generator is exhausted
Finish ==
    /\ ~done
    /\ pos > Len(text)
    /\ done' = TRUE
    /\ UNCHANGED << lexer, text, pos, out >>

Next == Step \/ Finish

Spec == Init /\ [][Next]_vars

(***************************************************************************)
(* Properties.                                                             *)
(***************************************************************************)
RECURSIVE Concat(_)
Concat(toks) ==
    IF toks = << >> THEN << >> ELSE Head(toks).value \o Concat(Tail(toks))

\* the position right after a token
TokenEnd(tok) == tok.index + Len(tok.value)

\* the pattern of the rule that yielded the token (none: the empty tag)
TokenPat(tok) ==
    LET s == Scan(lexer, text, tok.index)
    IN  IF s.rule = 0 THEN "" ELSE Rules(lexer)[s.rule].pat

Front(t) == SubSeq(t, 1, Len(t) - 1)

ActiveKeywords(lx) ==
    IF lx = "CustomLexer" THEN fstar_keyword_set
    ELSE fstar_keyword_set \cup pulse_keyword_set

\* C1 (round trip): the tokens are yielded in order, the first starts at the
\* first character, each starts where the one before it ends, the last ends
\* at the cursor, and their texts concatenated are the text scanned so far;
\* at the end of the scan they are the whole input.
C1_RoundTrip ==
    /\ Concat(out) = SubSeq(text, 1, pos - 1)
    /\ out # << >> => out[1].index = 1 /\ TokenEnd(out[Len(out)]) = pos
    /\ \A i \in 1..(Len(out) - 1) : TokenEnd(out[i]) = out[i + 1].index
    /\ \A i \in 1..Len(out) :
         out[i].value = SubSeq(text, out[i].index, TokenEnd(out[i]) - 1)
    /\ done => Concat(out) = text

C1_Witness ==
    /\ done
    /\ Len(out) >= 3
    /\ \E i \in 1..Len(out) : out[i].kind = "Keyword"
    /\ \E i \in 1..Len(out) : out[i].value = <<" ">>
    /\ Concat(out) = text

\* before the end of the input some rule of the table matches at the cursor
\* and its match is at least one character wide
C2_RuleMatches ==
    ~done /\ pos <= Len(text) =>
        /\ Scan(lexer, text, pos).rule # 0
        /\ Scan(lexer, text, pos).width >= 1

\* the cursor never passes the end of the input, there are no more tokens
\* than characters consumed, and the scan ends only with the cursor at the
\* end of the input
C2_ReachesEnd ==
    /\ pos <= Len(text) + 1
    /\ Len(out) <= pos - 1
    /\ done => pos = Len(text) + 1

\* C2 (progress and termination): before the end of the input some rule of
\* the table matches at the cursor and its match is never zero-width; every
\* pass of the loop moves the cursor forward, so the distance to the end of
\* the input, which is never negative, decreases on every pass until the
\* scan ends at the end of the input, newlines and carriage returns
\* included.
C2_Progress ==
    /\ [](C2_RuleMatches /\ C2_ReachesEnd)
    /\ [][ \/ pos' > pos /\ Len(text) + 1 - pos' < Len(text) + 1 - pos /\ ~done'
           \/ pos' = pos /\ pos = Len(text) + 1 /\ done' ]_vars

C2_Witness ==
    /\ done
    /\ Len(text) = MaxLen
    /\ \E i \in 1..Len(text) : text[i] = "\n"
    /\ \E i \in 1..Len(text) : text[i] = "\r"
    /\ pos = Len(text) + 1

\* C3 (keyword boundary): a keyword of the lexer's tables followed by one
\* character that is no letter, digit or underscore is yielded as one
\* Keyword token whose text is the keyword, followed by that character.
C3_KeywordBoundary ==
    ( /\ Len(text) >= 2
      /\ Front(text) \in ActiveKeywords(lexer)
      /\ ~IsWordChar(text[Len(text)]) ) =>
        /\ pos > 1 => out[1] = Token(1, "Keyword", Front(text))
        /\ done => Len(out) = 2

C3_Witness ==
    /\ done
    /\ lexer = "CustomLexer"
    /\ text = <<"i","n","l","i","n","e","_","f","o","r","_",
                "e","x","t","r","a","c","t","i","o","n"," ">>
    /\ out[1].kind = "Keyword"

\* C4 (no keyword in a longer word): no Keyword token is followed in the
\* input by a letter, digit or underscore; 'letrec' is one Text token.
C4_KeywordNotBeforeWordChar ==
    /\ \A i \in 1..Len(out) :
         out[i].kind = "Keyword" =>
            \/ TokenEnd(out[i]) > Len(text)
            \/ ~IsWordChar(text[TokenEnd(out[i])])
    /\ text = Letrec /\ pos > 1 => out = << Token(1, "Text", Letrec) >>

C4_Witness == done /\ text = Letrec /\ Len(out) = 1

\* the first newline at or after p (there is one)
FirstNewline(t, p) == Min({ q \in p..Len(t) : t[q] = "\n" })

\* C5 (line comment): a token that starts at two slashes with a newline
\* somewhere after them is a Comment that runs up to and including the
\* first such newline, and the next token starts right after that newline;
\* "// hello\nlet" is the Comment "// hello\n", then the Keyword "let".
C5_LineComment ==
    /\ \A i \in 1..Len(out) :
         LET p == out[i].index IN
         ( /\ p + 1 <= Len(text)
           /\ text[p] = "/" /\ text[p + 1] = "/"
           /\ \E q \in (p + 2)..Len(text) : text[q] = "\n" ) =>
             /\ out[i].kind = "Comment"
             /\ out[i].value = SubSeq(text, p, FirstNewline(text, p + 2))
             /\ i < Len(out) => out[i + 1].index = FirstNewline(text, p + 2) + 1
    /\ text = LineCommentThenLet /\ done =>
         out = << Token(1, "Comment", SubSeq(text, 1, 9)),
                  Token(10, "Keyword", <<"l","e","t">>) >>

C5_Witness ==
    /\ done
    /\ text = LineCommentThenLet
    /\ Len(out) = 2

\* the text starts with two slashes and no newline follows them
Unterminated(t) ==
    /\ Len(t) >= 2
    /\ t[1] = "/" /\ t[2] = "/"
    /\ \A q \in 3..Len(t) : t[q] # "\n"

\* C6 as stated: an input that starts with two slashes with no newline after
\* them yields no Comment token, and every token is Text.
C6_AllText ==
    Unterminated(text) => \A i \in 1..Len(out) : out[i].kind = "Text"

\* C6 (unterminated line comment), amended: for such an input the line
\* comment rule does not match, so each of the two slashes is yielded as a
\* one-character Text token and no Comment token starts at them; the rest
\* goes through the later rules, which may still yield a Keyword or a block
\* comment that opens after the slashes.  "// hello" is Text only.
C6_Unterminated ==
    /\ Unterminated(text) =>
         /\ pos > 1 => out[1] = Token(1, "Text", <<"/">>)
         /\ pos > 2 => out[2] = Token(2, "Text", <<"/">>)
         /\ \A i \in 1..Len(out) :
              out[i].kind = "Comment" =>
                 /\ out[i].index >= 3
                 /\ TokenPat(out[i]) = "block_comment"
    /\ text = UnterminatedLineComment =>
         \A i \in 1..Len(out) : out[i].kind = "Text"

C6_Witness ==
    /\ done
    /\ text = UnterminatedLineComment
    /\ Len(out) = 4
    /\ out[4].value = <<"h","e","l","l","o">>

\* C7 (extension vocabulary): a word of pulse_keywords standing alone, or
\* followed by one character that is no letter, digit or underscore, is one
\* Text token under CustomLexer and one Keyword token under PulseLexer.
C7_ExtensionWords ==
    LET word == IF text \in pulse_keyword_set THEN text ELSE Front(text)
        free == \/ text \in pulse_keyword_set
                \/ /\ Len(text) >= 2
                   /\ Front(text) \in pulse_keyword_set
                   /\ ~IsWordChar(text[Len(text)])
    IN  free /\ pos > 1 =>
          /\ out[1] = Token(1, IF lexer = "CustomLexer" THEN "Text" ELSE "Keyword", word)
          /\ done => Len(out) = IF text = word THEN 1 ELSE 2

C7_Witness ==
    /\ done
    /\ lexer = "CustomLexer"
    /\ text = <<"w","i","t","h","_","i","n","v","a","r","i","a","n","t","s">>
    /\ out = << Token(1, "Text", text) >>

\* the letters, digits and underscore; the letters and underscore
WordClass == Lower \cup Upper \cup Digit \cup {"_"}

LetterClass == Lower \cup Upper \cup {"_"}

\* tok is the longest run of characters of class that starts at its place
IsMaximalRun(tok, class) ==
    /\ \A j \in 1..Len(tok.value) : tok.value[j] \in class
    /\ TokenEnd(tok) <= Len(text) => text[TokenEnd(tok)] \notin class

\* C8 (digits): under CustomLexer a Text token that starts at a letter, digit
\* or underscore (a token of the identifier rule) is the maximal run of
\* letters, digits and underscores there; under PulseLexer a Text token that
\* starts at a letter or underscore is the maximal run of letters and
\* underscores, and a token that starts at a digit is that digit alone, as
\* Text.  "x1" is one Text token under CustomLexer, two under PulseLexer.
C8_Digits ==
    /\ \A i \in 1..Len(out) :
         /\ ( /\ lexer = "CustomLexer"
              /\ out[i].kind = "Text"
              /\ text[out[i].index] \in WordClass ) => IsMaximalRun(out[i], WordClass)
         /\ ( /\ lexer = "PulseLexer"
              /\ out[i].kind = "Text"
              /\ text[out[i].index] \in LetterClass ) => IsMaximalRun(out[i], LetterClass)
         /\ ( /\ lexer = "PulseLexer"
              /\ text[out[i].index] \in Digit ) =>
                out[i] = Token(out[i].index, "Text", << text[out[i].index] >>)
    /\ text = X1 /\ done =>
         out = IF lexer = "CustomLexer"
               THEN << Token(1, "Text", X1) >>
               ELSE << Token(1, "Text", <<"x">>), Token(2, "Text", <<"1">>) >>

C8_Witness ==
    /\ done
    /\ text = X1
    /\ lexer = "PulseLexer"
    /\ Len(out) = 2

\* C9 as stated: a Comment token that opens with '(*' is the shortest prefix
\* of the rest of the input that opens with '(*' and ends with '*)' (the
\* closing star not being the opening one): no close delimiter stands inside
\* it before its end.
C9_ShortestBlockComment ==
    \A i \in 1..Len(out) :
        out[i].kind = "Comment" /\ out[i].value[1] = "(" =>
            \A n \in 4..(Len(out[i].value) - 1) :
                ~(out[i].value[n - 1] = "*" /\ out[i].value[n] = ")")

\* C10 as stated: a Keyword token has no letter, digit or underscore right
\* before it and none right after it.
C10_WholeWord ==
    \A i \in 1..Len(out) :
        out[i].kind = "Keyword" =>
            /\ out[i].index = 1 \/ text[out[i].index - 1] \notin WordClass
            /\ \/ TokenEnd(out[i]) > Len(text)
               \/ text[TokenEnd(out[i])] \notin WordClass

=============================================================================
